---- MODULE Spec2Model ----
(***************************************************************************)
(* bintest (src/lib.rs): BinTest runs 'cargo build --message-format json', *)
(* reads the build's standard output line by line while the build runs,    *)
(* and records every produced executable under its file stem in a          *)
(* BTreeMap; list_executables and command read the finished map.           *)
(*                                                                         *)
(* Strings are sequences of one-character strings, paths are sequences of  *)
(* components, Option values are sequences of length 0 (None) or 1 (Some). *)
(***************************************************************************)
EXTENDS Integers, Sequences, FiniteSets, TLC

VARIABLES
    builder,            \* the BinTestBuilder value (lib.rs 42-46)
    release,            \* RELEASE_BUILD, fixed at compile time (lib.rs 54-58)
    pc,                 \* where the caller is: new, with, reading, done, aborted
    args,               \* the arguments given to the cargo_build Command
    stdio,              \* the Command's stdin / stdout / stderr settings
    output,             \* the lines the child writes to its standard output
    cap,                \* the capacity of the pipe, in lines
    written,            \* how many lines the child has written so far
    pipe,               \* the lines in the pipe, written and not yet read
    childState,         \* running, closed (stdout closed), exited_ok, exited_fail
    nread,              \* how many stream items the parent has taken
    build_executables,  \* the BTreeMap<String, Utf8PathBuf>, as its sorted entries
    abortMsg,           \* the panic message of an aborted run (None while running)
    lastCall,           \* the latest list_executables / command call and its result
    listResults         \* every distinct sequence list_executables has yielded

vars == <<builder, release, pc, args, stdio, output, cap, written, pipe,
          childState, nread, build_executables, abortMsg, lastCall, listResults>>

-----------------------------------------------------------------------------
(* Bounds of the model. *)

MaxLen == 3        \* longest child output, in lines
MaxCap == 2        \* largest pipe capacity, in lines
NThreads == 2      \* test threads that share the finished BinTest

-----------------------------------------------------------------------------
(* Option, strings and paths. *)

None == << >>
Some(x) == <<x>>

foo == <<"f", "o", "o">>
bar == <<"b", "a", "r">>
zz == <<"z", "z">>
foo_exe == <<"f", "o", "o", ".", "e", "x", "e">>
RootDir == <<"/">>
ParentDir == <<".", ".">>
dir_a == <<"a">>
dir_b == <<"b">>

\* /a/foo, /b/foo.exe, /a/bar, / and /a/..
path_a_foo == <<RootDir, dir_a, foo>>
path_b_foo_exe == <<RootDir, dir_b, foo_exe>>
path_a_bar == <<RootDir, dir_a, bar>>
path_root == <<RootDir>>
path_a_dotdot == <<RootDir, dir_a, ParentDir>>

Paths == {path_a_foo, path_b_foo_exe, path_a_bar, path_root, path_a_dotdot}

\* The names the tests look up, and the targets build_executable is given.
Names == {foo, zz}
Targets == {foo, bar}

\* The byte of a character: String's Ord is the order of the UTF-8 bytes.
ByteOf(c) ==
    CASE c = "." -> 46
      [] c = "/" -> 47
      [] c = "a" -> 97
      [] c = "b" -> 98
      [] c = "e" -> 101
      [] c = "f" -> 102
      [] c = "o" -> 111
      [] c = "r" -> 114
      [] c = "x" -> 120
      [] c = "z" -> 122

\* a < b for two Strings: the first differing byte decides, a proper prefix is less.
StrLess(a, b) ==
    \E i \in 1..(Len(a) + 1) :
        /\ \A j \in 1..(i - 1) : j <= Len(b) /\ a[j] = b[j]
        /\ i <= Len(b)
        /\ (i > Len(a) \/ ByteOf(a[i]) < ByteOf(b[i]))

\* Utf8Path::file_name: the last component when it is a normal one; None for
\* the root, for a path ending in '..' and for the empty path.
FileName(p) ==
    IF p = << >> THEN None
    ELSE LET last == p[Len(p)]
         IN  IF last = RootDir \/ last = ParentDir THEN None ELSE Some(last)

\* The place of the last '.' of a file name, 0 when it has none.
LastDot(name) ==
    LET dots == {i \in 1..Len(name) : name[i] = "."}
    IN  IF dots = {} THEN 0 ELSE CHOOSE i \in dots : \A j \in dots : j <= i

\* Utf8Path::file_stem: the file name up to its last '.'; the whole name when
\* it has no '.' or only a leading one; None when there is no file name.
FileStem(p) ==
    LET fn == FileName(p)
    IN  IF fn = None THEN None
        ELSE LET name == fn[1]
                 d == LastDot(name)
             IN  IF d <= 1 THEN Some(name) ELSE Some(SubSeq(name, 1, d - 1))

-----------------------------------------------------------------------------
(* BTreeMap<String, Utf8PathBuf>: its entries <<key, value>> in key order. *)

BTreeKeys(m) == {m[i][1] : i \in 1..Len(m)}

\* BTreeMap::insert, kept first value: a map that does not overwrite.
BTreeInsertKeepFirst(m, k, v) ==
    IF \E i \in 1..Len(m) : m[i][1] = k
    THEN m
    ELSE LET n == Cardinality({i \in 1..Len(m) : StrLess(m[i][1], k)})
         IN  SubSeq(m, 1, n) \o << <<k, v>> >> \o SubSeq(m, n + 1, Len(m))

\* BTreeMap::insert, appending: a map that keeps insertion order.
BTreeInsertAppend(m, k, v) ==
    IF \E i \in 1..Len(m) : m[i][1] = k
    THEN LET i == CHOOSE i \in 1..Len(m) : m[i][1] = k
         IN  [m EXCEPT ![i] = <<k, v>>]
    ELSE Append(m, <<k, v>>)

\* BTreeMap::insert: the value replaces that of an equal key, a new key goes
\* to its place in key order.
BTreeInsert(m, k, v) ==
    IF \E i \in 1..Len(m) : m[i][1] = k
    THEN LET i == CHOOSE i \in 1..Len(m) : m[i][1] = k
         IN  [m EXCEPT ![i] = <<k, v>>]
    ELSE LET n == Cardinality({i \in 1..Len(m) : StrLess(m[i][1], k)})
         IN  SubSeq(m, 1, n) \o << <<k, v>> >> \o SubSeq(m, n + 1, Len(m))

\* BTreeMap::get that finds nothing.
BTreeGetNothing(m, k) == None

\* BTreeMap::get
BTreeGet(m, k) ==
    IF \E i \in 1..Len(m) : m[i][1] = k
    THEN Some(m[CHOOSE i \in 1..Len(m) : m[i][1] = k][2])
    ELSE None

-----------------------------------------------------------------------------
(* The lines of the build's standard output and what parse_stream yields.  *)

\* A line is a compiler-artifact message with or without an executable, a
\* message of another kind (build-finished), a line that is not JSON, or a
\* line whose bytes are not UTF-8.
ArtifactLine(exe) == [kind |-> "compiler-artifact", executable |-> exe]
OtherLine == [kind |-> "build-finished", executable |-> None]
TextLine == [kind |-> "not-json", executable |-> None]
BadUtf8Line == [kind |-> "invalid-utf8", executable |-> None]

Lines ==
    {ArtifactLine(Some(p)) : p \in Paths}
        \cup {ArtifactLine(None), OtherLine, TextLine, BadUtf8Line}

\* What the child can write: every sequence of at most n lines.
Streams(n) == UNION {[1..k -> Lines] : k \in 0..n}

\* Message::parse_stream, one item: read_line fails on bytes that are not
\* UTF-8 (Err); a line that does not deserialize as a message is handed on as
\* Message::TextLine; otherwise the message.
ParseStreamItem(line) ==
    IF line.kind = "invalid-utf8" THEN [ok |-> FALSE, msg |-> line]
    ELSE [ok |-> TRUE, msg |-> line]

\* message.unwrap() that skips a failed item instead of panicking.
UnwrapPanicsNever(item) == FALSE

\* message.unwrap() panics on Err.
UnwrapPanics(item) == ~item.ok

\* `if let Message::CompilerArtifact(artifact)` and `if let Some(executable)`.
IsExecutableArtifact(msg) ==
    msg.kind = "compiler-artifact" /\ msg.executable # None

\* The key an executable is recorded under, were it the file name.
ArtifactKeyFileName(executable) == FileName(executable)

\* The key an executable is recorded under: executable.file_stem().
ArtifactKey(executable) == FileStem(executable)

\* The loop body on a message that empties the map when it records nothing.
OnMessageForgets(m, msg) ==
    IF IsExecutableArtifact(msg)
    THEN BTreeInsert(m, ArtifactKey(msg.executable[1])[1], msg.executable[1])
    ELSE << >>

\* The loop body on a message whose executable (if any) has a file stem: the
\* map afterwards.
OnMessage(m, msg) ==
    IF IsExecutableArtifact(msg)
    THEN BTreeInsert(m, ArtifactKey(msg.executable[1])[1], msg.executable[1])
    ELSE m

\* .expect("filename") panics: an executable without a file stem.
ExpectFilenamePanics(msg) ==
    IsExecutableArtifact(msg) /\ ArtifactKey(msg.executable[1]) = None

-----------------------------------------------------------------------------
(* Panic messages, as sequences of text chunks and characters. *)

MsgSpawn == <<"'cargo build' success">>
MsgUnwrap == <<"called Result::unwrap() on an Err value">>
MsgFilename == <<"filename">>
MsgNoSuchExecutable(name) == <<"no such executable <<">> \o name \o <<">>">>

\* The panic message of command without the name.
MsgNoSuchExecutableAnonymous(name) == <<"no such executable">>

-----------------------------------------------------------------------------
(* The builder. *)

\* BinTestBuilder::new
BuilderNew ==
    [build_workspace |-> FALSE, specific_executable |-> None, quiet |-> FALSE]

\* A literal argument, as a String of one chunk.
Arg(s) == <<s>>

\* The arguments with --quiet ahead of --bin: another order.
CargoArgsQuietFirst(b, rel) ==
    <<Arg("build"), Arg("--message-format"), Arg("json")>>
        \o (IF rel THEN <<Arg("--release")>> ELSE << >>)
        \o (IF b.build_workspace THEN <<Arg("--workspace")>> ELSE << >>)
        \o (IF b.quiet THEN <<Arg("--quiet")>> ELSE << >>)
        \o (IF b.specific_executable # None
            THEN <<Arg("--bin"), b.specific_executable[1]>> ELSE << >>)

\* The arguments new_with_builder gives cargo, in the order it adds them.
CargoArgs(b, rel) ==
    LET a0 == <<Arg("build"), Arg("--message-format"), Arg("json")>>
        a1 == IF rel THEN Append(a0, Arg("--release")) ELSE a0
        a2 == IF b.build_workspace THEN Append(a1, Arg("--workspace")) ELSE a1
        a3 == IF b.specific_executable # None
              THEN a2 \o <<Arg("--bin"), b.specific_executable[1]>> ELSE a2
        a4 == IF b.quiet THEN Append(a3, Arg("--quiet")) ELSE a3
    IN  a4

\* Command's stdio: stdout(Stdio::piped()), the others as Command::new leaves them.
CargoStdio == [stdin |-> "inherit", stdout |-> "piped", stderr |-> "inherit"]

-----------------------------------------------------------------------------
(* The initial states. *)

\* No list_executables or command call yet.
NoCall == [thread |-> 0, op |-> "none", name |-> << >>, list |-> << >>,
           program |-> None, args |-> << >>, spawned |-> FALSE, panic |-> None]

InitCommon ==
    /\ builder = BuilderNew
    /\ args = None
    /\ stdio = [stdin |-> "inherit", stdout |-> "inherit", stderr |-> "inherit"]
    /\ written = 0
    /\ pipe = << >>
    /\ childState = "unspawned"
    /\ nread = 0
    /\ build_executables = << >>
    /\ abortMsg = None
    /\ lastCall = NoCall
    /\ listResults = {}

\* A test calls BinTest::new(), from a test binary of the debug profile (the
\* profile only adds --release, see SpecWith): any build output, any pipe
\* capacity.
Init ==
    /\ InitCommon
    /\ release = FALSE
    /\ pc = "new"
    /\ output \in Streams(MaxLen)
    /\ cap \in 1..MaxCap

\* A test calls BinTest::with() and configures the builder before the build,
\* or calls BinTest::new().
InitWith ==
    /\ InitCommon
    /\ release \in BOOLEAN
    /\ pc \in {"with", "new"}
    /\ output \in Streams(1)
    /\ cap = 1

-----------------------------------------------------------------------------
(* BinTestBuilder's setters and the build. *)

build_workspace(workspace) ==
    /\ pc = "with"
    /\ builder' = [builder EXCEPT !.build_workspace = workspace]
    /\ UNCHANGED <<release, pc, args, stdio, output, cap, written, pipe,
                   childState, nread, build_executables, abortMsg, lastCall,
                   listResults>>

build_executable(executable) ==
    /\ pc = "with"
    /\ builder' = [builder EXCEPT !.specific_executable = Some(executable)]
    /\ UNCHANGED <<release, pc, args, stdio, output, cap, written, pipe,
                   childState, nread, build_executables, abortMsg, lastCall,
                   listResults>>

quiet(q) ==
    /\ pc = "with"
    /\ builder' = [builder EXCEPT !.quiet = q]
    /\ UNCHANGED <<release, pc, args, stdio, output, cap, written, pipe,
                   childState, nread, build_executables, abortMsg, lastCall,
                   listResults>>

\* new_with_builder up to the spawn: the Command is assembled, and spawn either
\* starts the child or fails, on which expect panics.
SpawnCargo(b) ==
    /\ args' = Some(CargoArgs(b, release))
    /\ stdio' = CargoStdio
    /\ \E spawned \in BOOLEAN :
        IF spawned
        THEN /\ pc' = "reading"
             /\ childState' = "running"
             /\ abortMsg' = None
        ELSE /\ pc' = "aborted"
             /\ childState' = "unspawned"
             /\ abortMsg' = Some(MsgSpawn)
    /\ build_executables' = << >>
    /\ UNCHANGED <<builder, release, output, cap, written, pipe, nread,
                   lastCall, listResults>>

\* BinTestBuilder::build
build ==
    /\ pc = "with"
    /\ SpawnCargo(builder)

\* BinTest::new
new ==
    /\ pc = "new"
    /\ SpawnCargo(BuilderNew)

-----------------------------------------------------------------------------
(* The child: cargo writes its lines into the pipe, closes it, exits. *)

\* The child writes its next line; it blocks while the pipe is full.
ChildWrite ==
    /\ childState = "running"
    /\ pc = "reading"
    /\ written < Len(output)
    /\ Len(pipe) < cap
    /\ pipe' = Append(pipe, output[written + 1])
    /\ written' = written + 1
    /\ UNCHANGED <<builder, release, pc, args, stdio, output, cap, childState,
                   nread, build_executables, abortMsg, lastCall, listResults>>

\* The child closes its standard output after its last line.
ChildClose ==
    /\ childState = "running"
    /\ written = Len(output)
    /\ childState' = "closed"
    /\ UNCHANGED <<builder, release, pc, args, stdio, output, cap, written,
                   pipe, nread, build_executables, abortMsg, lastCall,
                   listResults>>

\* The child exits, with success or failure, after its last line; its writes
\* fail once the parent has dropped the reader, and it exits with failure.
ChildExit(status) ==
    /\ \/ childState = "closed"
       \/ childState = "running" /\ written = Len(output)
       \/ childState = "running" /\ pc = "aborted" /\ status = "exited_fail"
    /\ childState' = status
    /\ UNCHANGED <<builder, release, pc, args, stdio, output, cap, written,
                   pipe, nread, build_executables, abortMsg, lastCall,
                   listResults>>

-----------------------------------------------------------------------------
(* The parent's read loop. *)

\* read_line after the child has exited only: a parent that waits first.
CanReadLineAfterExit ==
    pipe # << >> /\ childState \in {"exited_ok", "exited_fail"}

\* read_line has a line to return.
CanReadLine == pipe # << >>

\* read_line returns 0: the pipe is empty and its write end is closed.
AtEndOfStream == pipe = << >> /\ childState # "running"

\* The end of the loop, were the exit status inspected.
EofOutcomeChecksStatus == IF childState = "exited_fail" THEN "aborted" ELSE "done"

\* The end of the loop: new_with_builder returns the BinTest.
EofOutcome == "done"

\* One turn of the loop: the next item of parse_stream is unwrapped and, when
\* it is an artifact with an executable, recorded under its file stem.
ReadMessage ==
    /\ pc = "reading"
    /\ CanReadLine
    /\ LET item == ParseStreamItem(Head(pipe))
       IN  /\ pipe' = Tail(pipe)
           /\ nread' = nread + 1
           /\ IF UnwrapPanics(item)
              THEN /\ pc' = "aborted"
                   /\ abortMsg' = Some(MsgUnwrap)
                   /\ build_executables' = << >>
              ELSE IF ~item.ok
              THEN UNCHANGED <<pc, abortMsg, build_executables>>
              ELSE IF ExpectFilenamePanics(item.msg)
              THEN /\ pc' = "aborted"
                   /\ abortMsg' = Some(MsgFilename)
                   /\ build_executables' = << >>
              ELSE /\ pc' = "reading"
                   /\ abortMsg' = None
                   /\ build_executables' = OnMessage(build_executables, item.msg)
    /\ UNCHANGED <<builder, release, args, stdio, output, cap, written,
                   childState, lastCall, listResults>>

\* The stream ends: the loop is left and the BinTest returned.
EndOfStream ==
    /\ pc = "reading"
    /\ AtEndOfStream
    /\ pc' = EofOutcome
    /\ UNCHANGED <<builder, release, args, stdio, output, cap, written, pipe,
                   childState, nread, build_executables, abortMsg, lastCall,
                   listResults>>

-----------------------------------------------------------------------------
(* The finished BinTest, shared by the test threads. *)

Threads == 1..NThreads

\* BTreeMap::iter: the entries in key order.
BTreeIter(m) == m

list_executables(t) ==
    /\ pc = "done"
    /\ lastCall' = [NoCall EXCEPT !.thread = t, !.op = "list",
                                  !.list = BTreeIter(build_executables)]
    /\ listResults' = listResults \cup {BTreeIter(build_executables)}
    /\ UNCHANGED <<builder, release, pc, args, stdio, output, cap, written,
                   pipe, childState, nread, build_executables, abortMsg>>

\* The result of command(name) on map m: the Command, or the panic.
CommandResult(t, m, name) ==
    LET found == BTreeGet(m, name)
    IN  [NoCall EXCEPT !.thread = t, !.op = "command", !.name = name,
                       !.program = found,
                       !.panic = IF found = None
                                 THEN Some(MsgNoSuchExecutable(name))
                                 ELSE None]

\* command that takes the entry out of the map.
commandRemoving(t, name) ==
    /\ pc = "done"
    /\ lastCall' = CommandResult(t, build_executables, name)
    /\ build_executables' =
           SelectSeq(build_executables, LAMBDA e : e[1] # name)
    /\ UNCHANGED <<builder, release, pc, args, stdio, output, cap, written,
                   pipe, childState, nread, abortMsg, listResults>>

command(t, name) ==
    /\ pc = "done"
    /\ lastCall' = CommandResult(t, build_executables, name)
    /\ UNCHANGED <<builder, release, pc, args, stdio, output, cap, written,
                   pipe, childState, nread, build_executables, abortMsg,
                   listResults>>

-----------------------------------------------------------------------------
(* The specifications. *)

ChildStep == ChildWrite \/ ChildClose

ParentStep == ReadMessage \/ EndOfStream

Next ==
    \/ new
    \/ ChildWrite
    \/ ChildClose
    \/ \E status \in {"exited_ok", "exited_fail"} : ChildExit(status)
    \/ ReadMessage
    \/ EndOfStream
    \/ \E t \in Threads : list_executables(t)
    \/ \E t \in Threads, name \in Names : command(t, name)

NextWith ==
    \/ new
    \/ \E workspace \in BOOLEAN : build_workspace(workspace)
    \/ \E executable \in Targets : build_executable(executable)
    \/ \E q \in BOOLEAN : quiet(q)
    \/ build
    \/ ChildWrite
    \/ ChildClose
    \/ \E status \in {"exited_ok", "exited_fail"} : ChildExit(status)
    \/ ReadMessage
    \/ EndOfStream
    \/ \E t \in Threads : list_executables(t)
    \/ \E t \in Threads, name \in Names : command(t, name)

\* BinTest::new() and the use of its result.
Spec == Init /\ [][Next]_vars

\* BinTest::with()...build(), or BinTest::new(), and the use of the result.
SpecWith == InitWith /\ [][NextWith]_vars

\* BinTest::new() with parent and child both scheduled: either runs on while
\* it has a step to take.
SpecFair == Init /\ [][Next]_vars /\ WF_vars(ParentStep) /\ WF_vars(ChildStep)

-----------------------------------------------------------------------------
(* What the claims speak of, read off the child's output alone. *)

\* Line l reports an executable.
HasExecutable(l) == l.kind = "compiler-artifact" /\ l.executable # None

\* Line l reports an executable whose path has a file stem.
HasStem(l) == HasExecutable(l) /\ FileStem(l.executable[1]) # None

\* Line l is a message the loop discards: not an artifact, or one without an
\* executable.
Discarded(l) ==
    \/ l.kind \in {"build-finished", "not-json"}
    \/ l.kind = "compiler-artifact" /\ l.executable = None

\* The places of the lines of s that report an executable of file stem k.
PlacesOf(s, k) ==
    {i \in 1..Len(s) : HasStem(s[i]) /\ FileStem(s[i].executable[1])[1] = k}

\* The file stems reported in s.
StemsOf(s) ==
    {FileStem(s[i].executable[1])[1] : i \in {j \in 1..Len(s) : HasStem(s[j])}}

\* The path of the last line of s that reports file stem k.
LastPathOf(s, k) ==
    s[CHOOSE i \in PlacesOf(s, k) : \A j \in PlacesOf(s, k) : j <= i].executable[1]

\* The entries of map m, as a set.
Entries(m) == {m[i] : i \in 1..Len(m)}

\* Sequence part occurs in sequence whole, contiguously.
Contains(whole, part) ==
    \E i \in 0..(Len(whole) - Len(part)) :
        SubSeq(whole, i + 1, i + Len(part)) = part

\* No line of s makes the parent panic.
Clean(s) ==
    \A i \in 1..Len(s) :
        s[i].kind # "invalid-utf8" /\ (HasExecutable(s[i]) => HasStem(s[i]))

-----------------------------------------------------------------------------
\* C1: when new_with_builder returns, every file stem the stream reported has
\* exactly one entry in the index, and its value is the path of the last
\* message of that stem, whatever lies between the messages.
C1_LastWriteWins ==
    pc = "done" =>
        \A k \in StemsOf(output) :
            /\ Cardinality({i \in 1..Len(build_executables) :
                               build_executables[i][1] = k}) = 1
            /\ \E i \in 1..Len(build_executables) :
                   build_executables[i] = <<k, LastPathOf(output, k)>>

\* C1: a finished run whose stream held two executables of one stem and
\* different paths with another message between them.
C1_Witness ==
    /\ pc = "done"
    /\ \E i, j, l \in 1..Len(output) :
        /\ i < j /\ j < l
        /\ HasStem(output[i]) /\ HasStem(output[l])
        /\ ~HasStem(output[j])
        /\ FileStem(output[i].executable[1]) = FileStem(output[l].executable[1])
        /\ output[i].executable # output[l].executable

C3_Command ==
    lastCall.op = "command" =>
        LET name == lastCall.name
            at == {i \in 1..Len(build_executables) : build_executables[i][1] = name}
        IN  /\ lastCall.panic # None <=> at = {}
            /\ lastCall.panic # None =>
                   /\ Contains(lastCall.panic[1], name)
                   /\ lastCall.program = None
            /\ at # {} =>
                   /\ \E i \in at : lastCall.program = Some(build_executables[i][2])
                   /\ lastCall.args = << >>
                   /\ ~lastCall.spawned

\* C3: command panicked on a name missing from an index that is not empty.
C3_Witness ==
    /\ lastCall.op = "command"
    /\ lastCall.panic # None
    /\ build_executables # << >>

\* C4: the turn of the loop that takes a message of another kind, or an
\* artifact without an executable, leaves the index as it was and the loop
\* running; and the index returned holds every file stem reported.
C4_DiscardedKeepsIndex ==
    [][/\ (pc = "reading" /\ pipe # << >> /\ nread' = nread + 1
              /\ Discarded(Head(pipe)))
           => (/\ build_executables' = build_executables
               /\ pc' = "reading"
               /\ abortMsg' = None)
       /\ pc' = "done" => StemsOf(output) \subseteq BTreeKeys(build_executables')
      ]_vars

\* C4: a finished run that recorded an executable reported after a discarded
\* message.
C4_Witness ==
    /\ pc = "done"
    /\ \E i, j \in 1..Len(output) :
        /\ i < j
        /\ Discarded(output[i])
        /\ HasStem(output[j])
        /\ output[j].executable[1] \in {e[2] : e \in Entries(build_executables)}

\* C5: the arguments are build, --message-format, json, then --release iff
\* RELEASE_BUILD, --workspace iff build_workspace, --bin and the target iff one
\* is set, --quiet iff quiet, in this order and nothing else; an unconfigured
\* builder adds none of --workspace, --bin, --quiet; stdout is piped, stdin
\* and stderr are inherited.
C5_Arguments ==
    /\ pc \in {"with", "new"} => args = None
    /\ args # None =>
        /\ args[1] =
               <<Arg("build"), Arg("--message-format"), Arg("json")>>
                   \o (IF release THEN <<Arg("--release")>> ELSE << >>)
                   \o (IF builder.build_workspace
                       THEN <<Arg("--workspace")>> ELSE << >>)
                   \o (IF builder.specific_executable # None
                       THEN <<Arg("--bin"), builder.specific_executable[1]>>
                       ELSE << >>)
                   \o (IF builder.quiet THEN <<Arg("--quiet")>> ELSE << >>)
        /\ builder = BuilderNew =>
               \A i \in 1..Len(args[1]) :
                   args[1][i] \notin {Arg("--workspace"), Arg("--bin"), Arg("--quiet")}
        /\ stdio = [stdin |-> "inherit", stdout |-> "piped", stderr |-> "inherit"]

\* C5: a release build of one target of the whole workspace, quietly: every
\* optional argument is there.
C5_Witness ==
    /\ pc = "reading"
    /\ args # None
    /\ Len(args[1]) = 8
    /\ builder.specific_executable = Some(bar)

\* The child is blocked on a full pipe.
ChildBlocked ==
    childState = "running" /\ written < Len(output) /\ Len(pipe) >= cap

\* C6: the child is never blocked on a full pipe while the parent has no step
\* to take; and with parent and child both scheduled, a run whose lines the
\* parent accepts always comes to return the index, for every capacity and
\* every length of output.
C6_NoBackpressureDeadlock ==
    /\ [](ChildBlocked /\ pc = "reading" => ENABLED ParentStep)
    /\ (pc = "reading" /\ Clean(output)) ~> (pc = "done")

\* C6: the child is blocked on a full pipe with more lines to write than the
\* pipe holds, while the parent reads.
C6_Witness ==
    /\ ChildBlocked
    /\ pc = "reading"
    /\ Clean(output)
    /\ Len(output) > cap

\* a's keys ascend strictly.
StrictlyAscending(a) ==
    \A i \in 1..(Len(a) - 1) : StrLess(a[i][1], a[i + 1][1])

\* C7: list_executables yields every entry of the index once, in strictly
\* ascending key order, the same sequence at every call, and leaves the index
\* as it is.
C7_ListAscending ==
    /\ Cardinality(listResults) <= 1
    /\ lastCall.op = "list" =>
        /\ StrictlyAscending(lastCall.list)
        /\ lastCall.list \in listResults
        /\ Entries(lastCall.list) = Entries(build_executables)
        /\ Len(lastCall.list) = Cardinality(BTreeKeys(build_executables))
        /\ BTreeKeys(build_executables) = StemsOf(output)

\* C7: list_executables yielded two entries that the stream reported in
\* descending key order, after a command call.
C7_Witness ==
    /\ lastCall.op = "list"
    /\ Len(lastCall.list) = 2
    /\ \E i, j \in 1..Len(output) :
        /\ i < j
        /\ HasStem(output[i]) /\ HasStem(output[j])
        /\ StrLess(FileStem(output[j].executable[1])[1],
                   FileStem(output[i].executable[1])[1])

\* C8: at the end of the stream the parent returns, whether the child has
\* exited or not and however it exited; the index returned is that of the
\* lines alone; and a run with a child aborts only on a line.
C8_EndOfStreamReturns ==
    /\ (pc = "reading" /\ pipe = << >> /\ childState # "running")
           => ENABLED EndOfStream
    /\ pc = "done" =>
        /\ abortMsg = None
        /\ Entries(build_executables) =
               {<<k, LastPathOf(output, k)>> : k \in StemsOf(output)}
    /\ (pc = "aborted" /\ childState # "unspawned") =>
        /\ nread >= 1
        /\ \/ output[nread].kind = "invalid-utf8"
           \/ HasExecutable(output[nread]) /\ ~HasStem(output[nread])

\* C8: the index of a build that failed after reporting an executable.
C8_Witness ==
    /\ pc = "done"
    /\ childState = "exited_fail"
    /\ build_executables # << >>

\* C9: once new_with_builder has returned, no step changes the index.
C9_IndexImmutable ==
    [][pc = "done" => (pc' = "done" /\ build_executables' = build_executables)]_vars

\* C9: the second thread's command panicked on a missing name, after a
\* list_executables call, on an index that is not empty.
C9_Witness ==
    /\ pc = "done"
    /\ lastCall.op = "command"
    /\ lastCall.thread = 2
    /\ lastCall.panic # None
    /\ listResults # {}
    /\ Len(build_executables) = 2

\* C10, as claimed: the turn of the loop that takes an artifact with an
\* executable, whatever its path, leaves the loop running with the path's
\* file stem mapped to the path.
C10_EveryPathUpserted ==
    [][(pc = "reading" /\ pipe # << >> /\ nread' = nread + 1
           /\ HasExecutable(Head(pipe)))
        => (/\ pc' = "reading"
            /\ FileStem(Head(pipe).executable[1]) # None
            /\ <<FileStem(Head(pipe).executable[1])[1], Head(pipe).executable[1]>>
                   \in Entries(build_executables'))
      ]_vars

\* C10, amended: the turn of the loop that takes an artifact whose executable
\* path has a file stem maps that stem to that path, in one entry, and leaves
\* every other entry as it was; every key of the index is the file stem of its
\* path; and on an executable path without a file stem (the root, a path
\* ending in '..') the run aborts with "filename".
C10_StemUpserted ==
    [][/\ (pc = "reading" /\ pipe # << >> /\ nread' = nread + 1
              /\ HasStem(Head(pipe)))
           => LET p == Head(pipe).executable[1]
                  k == FileStem(p)[1]
              IN  /\ pc' = "reading"
                  /\ {e \in Entries(build_executables') : e[1] = k} = {<<k, p>>}
                  /\ {e \in Entries(build_executables') : e[1] # k}
                         = {e \in Entries(build_executables) : e[1] # k}
       /\ (pc = "reading" /\ pipe # << >> /\ nread' = nread + 1
              /\ HasExecutable(Head(pipe)) /\ ~HasStem(Head(pipe)))
           => (pc' = "aborted" /\ abortMsg' = Some(MsgFilename))
       /\ \A e \in Entries(build_executables') : Some(e[1]) = FileStem(e[2])
      ]_vars

\* C10: the loop runs on with /b/foo.exe recorded under foo beside another
\* entry.
C10_Witness ==
    /\ pc = "reading"
    /\ Len(build_executables) = 2
    /\ <<foo, path_b_foo_exe>> \in Entries(build_executables)

====
